---- MODULE Spec2Model ----
(***************************************************************************)
(* A model of the backtest-report normalisation code of AlgoTrader         *)
(* (src/src/backtests/htmlparser.py).                                      *)
(*                                                                         *)
(* A pandas DataFrame is a record                                          *)
(*     [columns, index, name, data]                                        *)
(* columns : the sequence of column labels                                 *)
(* index   : the sequence of row labels                                    *)
(* name    : the name of the index ("None" when it has none)               *)
(* data    : the sequence of rows, each a sequence of cells                *)
(* Cells of the operations tables are strings, as the table extractor      *)
(* produces them (cell.text.strip()).  The texts of the header table are   *)
(* sequences of one-character strings, so that the regular expressions     *)
(* and the splitting of the header parser can be computed on them.         *)
(*                                                                         *)
(* A call that raises is the value [exc |-> <exception>, val |-> <<>>], a  *)
(* call that returns v is [exc |-> "None", val |-> v].                     *)
(***************************************************************************)
EXTENDS Integers, Sequences, FiniteSets, TLC

VARIABLES
    job,         \* which entry point runs: "mt", "gbx", "hdr", "both" or "fx"
    pc,          \* position of the run: "start", "extracted", "done", "renamed"
    table,       \* the raw table handed to the entry point
                 \* (job "both": the raw tables [mt, gbx] of two reports)
    temp_ops,    \* get_mt4_operations: result of extract_mt4_operations_information
    ops,         \* result of get_mt4_operations / get_gbx_operations
    header,      \* result of extract_header_information
    module,      \* the module-level names COLUMNS_FOR_*_FROM_HTML of htmlparser
    mt4,         \* job "both": result of get_mt4_operations
    gbx,         \* job "both": result of get_gbx_operations
    concat_df,   \* job "both": df, the result of pd.concat([mt4, gbx], axis=0)
    valid,       \* result of is_ops_df_valid(ops)
    fx_pair,     \* job "fx": the FXPair object, or the exception of FXPair(...)
    fx_args,     \* job "fx": the arguments the pair was constructed with
    fx_swaps     \* job "fx": calls of swap_base_and_quote so far

vars == <<job, pc, table, temp_ops, ops, header, module, mt4, gbx, concat_df,
          valid, fx_pair, fx_args, fx_swaps>>

(***************************************************************************)
(* Bounds of the model.                                                    *)
(***************************************************************************)
MaxMtRows == 4      \* data rows of a raw MT operations table
MaxGbxRows == 4     \* rows of a raw GBX table after its leading rows

(***************************************************************************)
(* Constants of the program.                                               *)
(***************************************************************************)
\* The two dictionaries as the import of htmlparser leaves them (a
\* dictionary with the keys 1..n is the sequence of its values).  They are
\* objects that every call reads where it runs, so they are part of the
\* state.
ModuleAtImport ==
    [COLUMNS_FOR_MT4_FROM_HTML |->
        <<"#", "Time", "Type", "Order#", "Volume", "Price", "SL", "TP",
          "Profit", "Balace">>,
     COLUMNS_FOR_GBX_FROM_HTML |->
        <<"Order#", "OpenTime", "Type", "Volume", "Symbol", "OpenPrice",
          "SL", "TP", "CloseTime", "ClosePrice", "Commission", "Taxes",
          "Swap", "Profit">>]

COLUMNS_FOR_MT4_FROM_HTML == module.COLUMNS_FOR_MT4_FROM_HTML

COLUMNS_FOR_GBX_FROM_HTML == module.COLUMNS_FOR_GBX_FROM_HTML

MtTitleRows == 1    \* table.iloc[1:, :]
GbxLeadingRows == 4 \* table.iloc[4:, :]

(***************************************************************************)
(* Results of calls.                                                       *)
(***************************************************************************)
Ok(v) == [exc |-> "None", val |-> v]
Raise(e) == [exc |-> e, val |-> <<>>]
NotRun == [exc |-> "NotRun", val |-> <<>>]
Returned(r) == r.exc = "None"
HasRun(r) == r.exc # "NotRun"

(***************************************************************************)
(* pandas, as far as the program uses it.                                  *)
(***************************************************************************)
NoName == "None"

RangeIndex(n) == [i \in 1..n |-> i - 1]

\* The longest row of a list of rows (0 for no rows).
MaxRowLen(rows) ==
    IF Len(rows) = 0 THEN 0
    ELSE CHOOSE m \in {Len(rows[i]) : i \in 1..Len(rows)} :
            \A i \in 1..Len(rows) : Len(rows[i]) <= m

\* pd.DataFrame(list of rows): positional column and row labels.  The rows
\* of this model have equal lengths, so no cell is padded.
DataFrame(table_data) ==
    [columns |-> RangeIndex(MaxRowLen(table_data)),
     index   |-> RangeIndex(Len(table_data)),
     name    |-> NoName,
     data    |-> table_data]

\* df.iloc[k:, :]
IlocFrom(df, k) ==
    [df EXCEPT !.index = SubSeq(df.index, k + 1, Len(df.index)),
               !.data  = SubSeq(df.data, k + 1, Len(df.data))]

\* df.columns = names
SetColumns(df, names) ==
    IF Len(names) # Len(df.columns) THEN Raise("ValueError")
    ELSE Ok([df EXCEPT !.columns = names])

ColPos(df, label) == CHOOSE j \in 1..Len(df.columns) : df.columns[j] = label

\* df[label], the cells of one column in row order
Column(df, label) == [i \in 1..Len(df.data) |-> df.data[i][ColPos(df, label)]]

RemoveAt(s, j) == SubSeq(s, 1, j - 1) \o SubSeq(s, j + 1, Len(s))

DropColumn_KeepsColumn(df, label) == df

\* df.drop(label, axis=1)
DropColumn(df, label) ==
    [df EXCEPT !.columns = RemoveAt(df.columns, ColPos(df, label)),
               !.data = [i \in 1..Len(df.data) |->
                            RemoveAt(df.data[i], ColPos(df, label))]]

\* df.set_index(label, drop=True)
SetIndex(df, label) ==
    [DropColumn(df, label) EXCEPT !.index = Column(df, label),
                                  !.name = label]

ResetIndex_KeepLabels(df) == [df EXCEPT !.name = NoName]

\* df.reset_index(drop=True)
ResetIndex(df) ==
    [df EXCEPT !.index = RangeIndex(Len(df.data)), !.name = NoName]

\* The positions at which a boolean mask is true, ascending.
MaskPositions(mask) ==
    LET F[i \in 0..Len(mask)] ==
            IF i = 0 THEN <<>>
            ELSE IF mask[i] THEN Append(F[i - 1], i) ELSE F[i - 1]
    IN F[Len(mask)]

\* The rows at the given positions, with their labels.
TakeRows(df, pos) ==
    [df EXCEPT !.index = [i \in 1..Len(pos) |-> df.index[pos[i]]],
               !.data  = [i \in 1..Len(pos) |-> df.data[pos[i]]]]

\* df[mask]
Filter(df, mask) == TakeRows(df, MaskPositions(mask))

\* df.drop(labels): the rows whose label is not in labels
DropRows(df, labels) ==
    Filter(df, [i \in 1..Len(df.index) |-> df.index[i] \notin labels])

Unique_KeepsRepeats(s) == s

\* Series.unique(): the values in order of first appearance
Unique(s) ==
    LET F[i \in 0..Len(s)] ==
            IF i = 0 THEN <<>>
            ELSE IF \E j \in 1..Len(F[i - 1]) : F[i - 1][j] = s[i]
                 THEN F[i - 1]
                 ELSE Append(F[i - 1], s[i])
    IN F[Len(s)]

\* series[key] for an integer key on a series whose index holds strings:
\* pandas falls back to the position, counted from the end when negative.
SeriesItem(s, key) == IF key >= 0 THEN s[key + 1] ELSE s[Len(s) + key + 1]

(***************************************************************************)
(* extract_mt4_operations_information                                      *)
(***************************************************************************)
extract_mt4_operations_information(t) ==
    LET df == IlocFrom(t, MtTitleRows)
        named == SetColumns(df, COLUMNS_FOR_MT4_FROM_HTML)
        index_col == COLUMNS_FOR_MT4_FROM_HTML[1]
    IN IF ~Returned(named) THEN named
       ELSE Ok(SetIndex(named.val, index_col))

(***************************************************************************)
(* transform_mt4_to_gbx                                                    *)
(***************************************************************************)
\* The rows of one order: bt[bt["Order#"] == op]
MtOrderRows(bt, op) ==
    Filter(bt, [i \in 1..Len(bt.data) |->
                   Column(bt, COLUMNS_FOR_MT4_FROM_HTML[4])[i] = op])

MtOperation_StopLossFromLastRow(bt, op) ==
    LET columns == COLUMNS_FOR_MT4_FROM_HTML
        df == MtOrderRows(bt, op)
    IN <<op,
         SeriesItem(Column(df, columns[2]), 0),
         SeriesItem(Column(df, columns[3]), 0),
         SeriesItem(Column(df, columns[5]), 0),
         "",
         SeriesItem(Column(df, columns[6]), 0),
         SeriesItem(Column(df, columns[7]), -1),
         SeriesItem(Column(df, columns[8]), 0),
         SeriesItem(Column(df, columns[2]), -1),
         SeriesItem(Column(df, columns[6]), -1),
         "0", "0", "0",
         SeriesItem(Column(df, columns[9]), -1)>>

MtOperation_SwapFromBalance(bt, op) ==
    LET columns == COLUMNS_FOR_MT4_FROM_HTML
        df == MtOrderRows(bt, op)
    IN <<op,
         SeriesItem(Column(df, columns[2]), 0),
         SeriesItem(Column(df, columns[3]), 0),
         SeriesItem(Column(df, columns[5]), 0),
         "",
         SeriesItem(Column(df, columns[6]), 0),
         SeriesItem(Column(df, columns[7]), 0),
         SeriesItem(Column(df, columns[8]), 0),
         SeriesItem(Column(df, columns[2]), -1),
         SeriesItem(Column(df, columns[6]), -1),
         "0", "0",
         SeriesItem(Column(df, columns[10]), -1),
         SeriesItem(Column(df, columns[9]), -1)>>

\* The body of the loop: the 14 cells appended for one order.
MtOperation(bt, op) ==
    LET columns == COLUMNS_FOR_MT4_FROM_HTML
        df == MtOrderRows(bt, op)
        open_time   == SeriesItem(Column(df, columns[2]), 0)
        open_price  == SeriesItem(Column(df, columns[6]), 0)
        order_type  == SeriesItem(Column(df, columns[3]), 0)
        close_time  == SeriesItem(Column(df, columns[2]), -1)
        close_price == SeriesItem(Column(df, columns[6]), -1)
        stop_loss   == SeriesItem(Column(df, columns[7]), 0)
        take_profit == SeriesItem(Column(df, columns[8]), 0)
        volume      == SeriesItem(Column(df, columns[5]), 0)
        profit      == SeriesItem(Column(df, columns[9]), -1)
    IN <<op, open_time, order_type, volume, "", open_price, stop_loss,
         take_profit, close_time, close_price, "0", "0", "0", profit>>

transform_mt4_to_gbx(bt) ==
    LET order_ids == Unique(Column(bt, COLUMNS_FOR_MT4_FROM_HTML[4]))
        operations == [k \in 1..Len(order_ids) |-> MtOperation(bt, order_ids[k])]
        bt_df == DataFrame(operations)
        named == SetColumns(bt_df, COLUMNS_FOR_GBX_FROM_HTML)
    IN IF ~Returned(named) THEN named
       ELSE Ok([SetIndex(named.val, "Order#") EXCEPT !.name = "#"])

(***************************************************************************)
(* extract_gbx_operations_information                                      *)
(***************************************************************************)
GbxOddIdx_NoneFound(df) == {}

\* df[df["Order#"] == ""].index.to_list()
GbxOddIdx(df) ==
    LET odd == Filter(df, [i \in 1..Len(df.data) |->
                              Column(df, "Order#")[i] = ""])
    IN {odd.index[i] : i \in 1..Len(odd.index)}

GbxFlagRows_FirstOnly(df_red, flag) ==
    LET hits == Filter(df_red, [i \in 1..Len(df_red.data) |->
                                   Column(df_red, "Type")[i] = flag])
    IN TakeRows(hits, IF Len(hits.index) = 0 THEN <<>> ELSE <<1>>)

\* df_red[df_red["Type"] == flag]
GbxFlagRows(df_red, flag) ==
    Filter(df_red, [i \in 1..Len(df_red.data) |->
                       Column(df_red, "Type")[i] = flag])

extract_gbx_operations_information(t) ==
    LET df0 == IlocFrom(t, GbxLeadingRows)
        named == SetColumns(df0, COLUMNS_FOR_GBX_FROM_HTML)
    IN IF ~Returned(named) THEN named
       ELSE
       LET df == named.val
           odd_idx == GbxOddIdx(df)
           dropped == DropColumn(DropRows(df, odd_idx), "Order#")
           df_red == [ResetIndex(dropped) EXCEPT !.name = "#"]
           types == Unique(Column(df_red, "Type"))
       IN IF Len(types) = 0 THEN Raise("IndexError")      \* unique()[0]
          ELSE
          LET flag == types[1]
              hits == GbxFlagRows(df_red, flag)
          IN IF Len(hits.index) = 0 THEN Raise("IndexError")  \* values[-1]
             ELSE
             LET last_idx == hits.index[Len(hits.index)] + 1
             IN Ok(DropRows(df_red, last_idx..(Len(df_red.data) - 1)))

(***************************************************************************)
(* Texts of the header table: sequences of one-character strings.          *)
(***************************************************************************)
Digits == {"0", "1", "2", "3", "4", "5", "6", "7", "8", "9"}
UpperCase == {"A", "B", "C", "D", "E", "F", "G", "H", "I", "J", "K", "L", "M",
              "N", "O", "P", "Q", "R", "S", "T", "U", "V", "W", "X", "Y", "Z"}
\* The characters str.strip() removes.
Whitespace == {" ", "\t", "\n", "\r", "\f"}

DigitValue(c) ==
    CASE c = "0" -> 0 [] c = "1" -> 1 [] c = "2" -> 2 [] c = "3" -> 3
      [] c = "4" -> 4 [] c = "5" -> 5 [] c = "6" -> 6 [] c = "7" -> 7
      [] c = "8" -> 8 [] c = "9" -> 9

\* The number written by the digits s[a..b].
Number(s, a, b) ==
    LET F[i \in (a - 1)..b] ==
            IF i = a - 1 THEN 0 ELSE 10 * F[i - 1] + DigitValue(s[i])
    IN F[b]

IsDigitAt(s, i) == i <= Len(s) /\ s[i] \in Digits
IsCharAt(s, i, c) == i <= Len(s) /\ s[i] = c

\* \d{4}\.\d{2}\.\d{2} matches at position i
DatePatternAt(s, i) ==
    /\ \A j \in {i, i + 1, i + 2, i + 3, i + 5, i + 6, i + 8, i + 9} :
          IsDigitAt(s, j)
    /\ IsCharAt(s, i + 4, ".")
    /\ IsCharAt(s, i + 7, ".")

\* (?: \d{2}:\d{2}) matches at position i
TimePatternAt(s, i) ==
    /\ IsCharAt(s, i, " ")
    /\ IsDigitAt(s, i + 1) /\ IsDigitAt(s, i + 2)
    /\ IsCharAt(s, i + 3, ":")
    /\ IsDigitAt(s, i + 4) /\ IsDigitAt(s, i + 5)

\* The length of the match of pattern_dt at position i, 0 for no match.
\* The optional group is greedy: it is taken whenever it matches.
DateMatchLen(s, i) ==
    IF ~DatePatternAt(s, i) THEN 0
    ELSE IF TimePatternAt(s, i + 10) THEN 16 ELSE 10

\* re.findall(pattern_dt, text): the matches from left to right, each
\* search starting where the match before it ended.
RECURSIVE FindDatesFrom(_, _)
FindDatesFrom(s, i) ==
    IF i > Len(s) THEN <<>>
    ELSE IF DateMatchLen(s, i) > 0
         THEN <<SubSeq(s, i, i + DateMatchLen(s, i) - 1)>>
              \o FindDatesFrom(s, i + DateMatchLen(s, i))
         ELSE FindDatesFrom(s, i + 1)

parse_dates_and_times_from_string(text) == FindDatesFrom(text, 1)

\* \(([A-Z0-9]{2})\) matches at position i
TimeframePatternAt(s, i) ==
    /\ IsCharAt(s, i, "(")
    /\ i + 1 <= Len(s) /\ s[i + 1] \in UpperCase \cup Digits
    /\ i + 2 <= Len(s) /\ s[i + 2] \in UpperCase \cup Digits
    /\ IsCharAt(s, i + 3, ")")

\* re.findall(pattern_tf, text): the groups of the matches, left to right.
RECURSIVE FindTimeframesFrom(_, _)
FindTimeframesFrom(s, i) ==
    IF i > Len(s) THEN <<>>
    ELSE IF TimeframePatternAt(s, i)
         THEN <<SubSeq(s, i + 1, i + 2)>> \o FindTimeframesFrom(s, i + 4)
         ELSE FindTimeframesFrom(s, i + 1)

parse_timeframe_from_string_BlankWhenMissing(text) ==
    LET found == FindTimeframesFrom(text, 1)
    IN IF Len(found) = 0 THEN Ok(<<>>) ELSE Ok(found[1])

parse_timeframe_from_string(text) ==
    LET found == FindTimeframesFrom(text, 1)
    IN IF Len(found) = 0 THEN Raise("IndexError")      \* findall(...)[0]
       ELSE Ok(found[1])

IsLeapYear(y) == (y % 4 = 0 /\ y % 100 # 0) \/ y % 400 = 0

DaysInMonth(y, m) ==
    IF m = 2 THEN (IF IsLeapYear(y) THEN 29 ELSE 28)
    ELSE IF m \in {4, 6, 9, 11} THEN 30 ELSE 31

\* datetime.strptime(str_date, format_str) for a text that pattern_dt
\* matched: the fields are read by position, the values must be a date.
convert_to_datetime(str_date) ==
    LET with_time == Len(str_date) > 10
        year   == Number(str_date, 1, 4)
        month  == Number(str_date, 6, 7)
        day    == Number(str_date, 9, 10)
        hour   == IF with_time THEN Number(str_date, 12, 13) ELSE 0
        minute == IF with_time THEN Number(str_date, 15, 16) ELSE 0
    IN IF /\ year >= 1
          /\ month \in 1..12
          /\ day >= 1 /\ day <= DaysInMonth(year, month)
          /\ hour <= 23
          /\ minute <= 59
       THEN Ok([year |-> year, month |-> month, day |-> day,
                hour |-> hour, minute |-> minute])
       ELSE Raise("ValueError")

\* str.split(sep) for a one-character separator
RECURSIVE Split(_, _)
Split(s, sep) ==
    IF \A i \in 1..Len(s) : s[i] # sep THEN <<s>>
    ELSE LET p == CHOOSE i \in 1..Len(s) :
                     s[i] = sep /\ \A j \in 1..(i - 1) : s[j] # sep
         IN <<SubSeq(s, 1, p - 1)>> \o Split(SubSeq(s, p + 1, Len(s)), sep)

\* str.strip()
Strip(s) ==
    IF \A i \in 1..Len(s) : s[i] \in Whitespace THEN <<>>
    ELSE LET a == CHOOSE i \in 1..Len(s) :
                     s[i] \notin Whitespace
                     /\ \A j \in 1..(i - 1) : s[j] \in Whitespace
             b == CHOOSE i \in 1..Len(s) :
                     s[i] \notin Whitespace
                     /\ \A j \in (i + 1)..Len(s) : s[j] \in Whitespace
         IN SubSeq(s, a, b)

NonEmpty(elem) == Len(elem) > 0

EmptyDict == [k \in {} |-> <<>>]
\* params[key] = value
DictSet(d, key, value) ==
    [k \in DOMAIN d \cup {key} |-> IF k = key THEN value ELSE d[k]]

\* parse_ea_parameters: the loop over the fragments.  key, value =
\* elem.split('=') raises unless the fragment has exactly one '='.
RECURSIVE EaParamsLoop(_, _, _)
EaParamsLoop(elems, i, params) ==
    IF i > Len(elems) THEN Ok(params)
    ELSE LET parts == Split(elems[i], "=")
         IN IF Len(parts) # 2 THEN Raise("ValueError")
            ELSE EaParamsLoop(elems, i + 1,
                              DictSet(params, Strip(parts[1]), Strip(parts[2])))

parse_ea_parameters(text) ==
    LET elems == SelectSeq(Split(text, ";"), NonEmpty)
    IN EaParamsLoop(elems, 1, EmptyDict)

\* [convert_to_datetime(date) for date in dates_in_table]
RECURSIVE ConvertAll(_, _, _)
ConvertAll(dates, i, done) ==
    IF i > Len(dates) THEN Ok(done)
    ELSE LET d == convert_to_datetime(dates[i])
         IN IF ~Returned(d) THEN d
            ELSE ConvertAll(dates, i + 1, Append(done, d.val))

\* table.iloc[:, 1][label]: the cell of the second column in the row
\* labelled label.
DataCol(t, label) ==
    t.data[CHOOSE i \in 1..Len(t.index) : t.index[i] = label][2]

HEADER_KEYS ==
    <<"Symbol", "TF", "HistBeginning", "HistEnding", "BTBeginning",
      "BTEnding", "EAParams">>

\* The header dictionary: its items in insertion order.
extract_header_information(t) ==
    LET dates_in_table == parse_dates_and_times_from_string(DataCol(t, 1))
        dates_as_dt == ConvertAll(dates_in_table, 1, <<>>)
        timeframe == parse_timeframe_from_string(DataCol(t, 1))
        ea_params == parse_ea_parameters(DataCol(t, 3))
    IN IF ~Returned(dates_as_dt) THEN dates_as_dt
       ELSE IF ~Returned(timeframe) THEN timeframe
       ELSE IF ~Returned(ea_params) THEN ea_params
       ELSE IF Len(dates_as_dt.val) < 4 THEN Raise("IndexError")
       ELSE Ok(<< <<"Symbol", Split(DataCol(t, 0), " ")[1]>>,
                  <<"TF", timeframe.val>>,
                  <<"HistBeginning", dates_as_dt.val[1]>>,
                  <<"HistEnding", dates_as_dt.val[2]>>,
                  <<"BTBeginning", dates_as_dt.val[3]>>,
                  <<"BTEnding", dates_as_dt.val[4]>>,
                  <<"EAParams", ea_params.val>> >>)

(***************************************************************************)
(* The header tables extract_header_information is run on.                 *)
(***************************************************************************)
MaxDates == 5       \* date texts in the period row of a header table

\* Date texts: a date, a date with a time, and a text the pattern matches
\* that is no date of the calendar.
DateTexts ==
    {<<"2", "0", "2", "0", ".", "0", "1", ".", "0", "1">>,
     <<"2", "0", "2", "0", ".", "0", "6", ".", "0", "2", " ", "1", "4", ":", "3", "0">>,
     <<"2", "0", "2", "0", ".", "1", "3", ".", "0", "1">>}

\* Timeframe texts: a timeframe, a parenthesis the pattern does not match,
\* and two timeframes.
TimeframeTexts ==
    {<<"(", "H", "4", ")">>,
     <<"(", "M", "1", "5", ")">>,
     <<"(", "D", "1", ")", " ", "(", "H", "4", ")">>}

ParameterTexts ==
    {<<"L", "o", "t", "s", "=", "0", ".", "1", "0", ";", "R", "i", "s", "k", "=", "2">>,
     <<" ", "L", "o", "t", "s", " ", "=", " ", "0", ".", "1", "0", " ", ";", "L", "o", "t", "s", "=", "2", ";">>,
     <<"L", "o", "t", "s", "=", "0", ".", "1", "0", ";", "R", "i", "s", "k">>,
     <<"C", "o", "m", "m", "e", "n", "t", "=", "a", "=", "b">>,
     <<>>}

SymbolTexts ==
    {<<"A", "U", "D", "J", "P", "Y", " ", "(", "A", "U", "D", "/", "J", "P", "Y", ")">>,
     <<"A", "U", "D", "J", "P", "Y">>,
     <<"A", "U", "D", "J", "P", "Y", "\t", "(", "A", "U", "D", "/", "J", "P", "Y", ")">>}

RECURSIVE JoinWithSpace(_)
JoinWithSpace(texts) ==
    IF Len(texts) = 0 THEN <<>>
    ELSE <<" ">> \o Head(texts) \o JoinWithSpace(Tail(texts))

HeaderTable(symbol, timeframe, dates, parameters) ==
    DataFrame(<< <<<<"S", "y", "m", "b", "o", "l">>, symbol>>,
                 <<<<"P", "e", "r", "i", "o", "d">>, timeframe \o JoinWithSpace(dates)>>,
                 <<<<"M", "o", "d", "e", "l">>, <<"E", "v", "e", "r", "y", " ", "t", "i", "c", "k">>>>,
                 <<<<"P", "a", "r", "a", "m", "e", "t", "e", "r", "s">>, parameters>> >>)

(***************************************************************************)
(* The raw tables the entry points are run on.                             *)
(***************************************************************************)
\* Cells of the i-th data row of an MT operations table.  Every row has its
\* own texts, so the row a cell of the result was taken from can be told.
MtSerial  == <<"1", "2", "3", "4", "5", "6">>
MtTime    == <<"2020.01.01 00:00", "2020.01.02 04:00", "2020.01.03 08:00",
               "2020.01.04 12:00", "2020.01.05 16:00", "2020.01.06 20:00">>
MtVolume  == <<"0.10", "0.20", "0.30", "0.40", "0.50", "0.60">>
MtPrice   == <<"1.1000", "1.1050", "1.1100", "1.1150", "1.1200", "1.1250">>
MtSL      == <<"1.0900", "1.0910", "1.0920", "1.0930", "1.0940", "1.0950">>
MtTP      == <<"1.1200", "1.1210", "1.1220", "1.1230", "1.1240", "1.1250">>
MtProfit  == <<"0.00", "50.00", "-12.50", "7.25", "3.10", "-40.00">>
MtBalance == <<"10000.00", "10050.00", "10037.50", "10044.75", "10047.85",
               "10007.85">>

MtOrderIds == {"5", "6", "7"}
MtTypes == {"buy", "close"}

MtTitleRow ==
    <<"#", "Time", "Type", "Order", "Size", "Price", "S / L", "T / P",
      "Profit", "Balance">>

MtDataRow(i, order, type) ==
    <<MtSerial[i], MtTime[i], type, order, MtVolume[i], MtPrice[i], MtSL[i],
      MtTP[i], MtProfit[i], MtBalance[i]>>

\* A raw MT operations table: the title row and the data rows whose order
\* ids and types are given.
MtRawTable(n, order, type) ==
    DataFrame(<<MtTitleRow>> \o [i \in 1..n |-> MtDataRow(i, order[i], type[i])])

GbxOrder  == <<"101", "102", "103", "104", "105", "106">>
GbxOpen   == <<"2021.03.01 10:00", "2021.03.02 10:00", "2021.03.03 10:00",
               "2021.03.04 10:00", "2021.03.05 10:00", "2021.03.06 10:00">>
GbxClose  == <<"2021.03.01 18:00", "2021.03.02 18:00", "2021.03.03 18:00",
               "2021.03.04 18:00", "2021.03.05 18:00", "2021.03.06 18:00">>
GbxProfit == <<"12.00", "-3.50", "8.75", "0.40", "-9.10", "21.00">>

GbxTypes == {"Buy", "Sell", ""}

GbxLeadingRow(i) ==
    <<"Genbox report", "", "", "", "", "", "", "", "", "", "", "", "",
      GbxProfit[i]>>

\* A row after the leading rows: a sentinel has an empty Order# cell.
GbxBodyRow(i, sentinel, type) ==
    <<IF sentinel THEN "" ELSE GbxOrder[i], GbxOpen[i], type, "0.10",
      "EURUSD", "1.1000", "1.0900", "1.1200", GbxClose[i], "1.1050", "0",
      "0", "0", GbxProfit[i]>>

\* A raw GBX table of fewer than 4 rows.
GbxShortTable(k) == DataFrame([i \in 1..k |-> GbxLeadingRow(i)])

\* A raw GBX table: the 4 leading rows and n further rows.
GbxRawTable(n, sentinel, type) ==
    DataFrame([i \in 1..GbxLeadingRows |-> GbxLeadingRow(i)]
              \o [i \in 1..n |-> GbxBodyRow(i, sentinel[i], type[i])])

(***************************************************************************)
(* What a call leaves of the object it was handed.                         *)
(***************************************************************************)
\* The case in which df were the object table itself: the assignment of
\* the columns and set_index(inplace=True) would then act on the input.
TableAfterExtractMt4_InPlace(t) ==
    LET r == extract_mt4_operations_information(t)
    IN IF Returned(r) THEN r.val ELSE t

\* extract_mt4_operations_information: df = table.iloc[1:, :] is a new
\* DataFrame object with axes of its own; df.columns = ... and
\* df.set_index(..., inplace=True) replace the axes and the data of df.
TableAfterExtractMt4(t) == t

\* transform_mt4_to_gbx reads bt (bt["Order#"], bt[bt["Order#"] == op]) and
\* builds bt_df from the list operations.
BtAfterTransformMt4ToGbx(bt) == bt

\* extract_gbx_operations_information: df = table.iloc[4:, :] is a new
\* object; drop and reset_index return new objects.
TableAfterExtractGbx(t) == t

(***************************************************************************)
(* pd.concat([a, b], axis=0): the rows of a, then those of b, under the    *)
(* columns of a followed by the columns only b has (a cell without a       *)
(* source is NaN); the index keeps its name when both names agree.         *)
(***************************************************************************)
HasColumn(x, label) == \E k \in 1..Len(x.columns) : x.columns[k] = label

pd_concat(a, b) ==
    LET OnlyB(label) == ~HasColumn(a, label)
        columns == a.columns \o SelectSeq(b.columns, OnlyB)
        Row(x, i) == [j \in 1..Len(columns) |->
                        IF HasColumn(x, columns[j])
                        THEN x.data[i][ColPos(x, columns[j])]
                        ELSE "NaN"]
    IN [columns |-> columns,
        index   |-> a.index \o b.index,
        name    |-> IF a.name = b.name THEN a.name ELSE NoName,
        data    |-> [i \in 1..Len(a.data) |-> Row(a, i)]
                    \o [i \in 1..Len(b.data) |-> Row(b, i)]]

(***************************************************************************)
(* The state machine: one run of an entry point on one raw table.          *)
(***************************************************************************)
\* The raw tables of the runs: an MT operations table (that of an empty
\* <table> element included) or a GBX table.
InitTable ==
    \/ /\ job = "mt"
       /\ \/ table = DataFrame(<<>>)
          \/ \E n \in 0..MaxMtRows :
                \E order \in [1..n -> MtOrderIds], type \in [1..n -> MtTypes] :
                   table = MtRawTable(n, order, type)
    \/ /\ job = "gbx"
       /\ \/ \E k \in 0..(GbxLeadingRows - 1) : table = GbxShortTable(k)
          \/ \E n \in 0..MaxGbxRows :
                \E sentinel \in [1..n -> BOOLEAN], type \in [1..n -> GbxTypes] :
                   table = GbxRawTable(n, sentinel, type)

\* No call of the two-report job has run.
NoPair == mt4 = NotRun /\ gbx = NotRun /\ concat_df = NotRun

\* No FXPair has been constructed.
NoFx == fx_pair = NotRun /\ fx_args = <<>> /\ fx_swaps = 0

PairVars == <<mt4, gbx, concat_df>>
FxVars == <<fx_pair, fx_args, fx_swaps>>

Init ==
    /\ module = ModuleAtImport
    /\ InitTable
    /\ pc = "start"
    /\ temp_ops = NotRun
    /\ ops = NotRun
    /\ header = NotRun
    /\ valid = NotRun
    /\ NoPair
    /\ NoFx

\* get_mt4_operations, first call: temp_ops = extract_mt4_operations_information(mt4[1])
ExtractMt4Operations ==
    /\ job = "mt"
    /\ pc = "start"
    /\ temp_ops' = extract_mt4_operations_information(table)
    /\ table' = TableAfterExtractMt4(table)
    /\ ops' = IF Returned(temp_ops') THEN ops ELSE temp_ops'
    /\ pc' = IF Returned(temp_ops') THEN "extracted" ELSE "done"
    /\ UNCHANGED <<job, header, module, valid, PairVars, FxVars>>

\* get_mt4_operations, second call: ops = transform_mt4_to_gbx(temp_ops)
TransformMt4ToGbx ==
    /\ job = "mt"
    /\ pc = "extracted"
    /\ ops' = transform_mt4_to_gbx(temp_ops.val)
    /\ temp_ops' = Ok(BtAfterTransformMt4ToGbx(temp_ops.val))
    /\ pc' = "done"
    /\ UNCHANGED <<job, table, header, module, valid, PairVars, FxVars>>

\* get_gbx_operations: ops = extract_gbx_operations_information(gbx[0])
ExtractGbxOperations ==
    /\ job = "gbx"
    /\ pc = "start"
    /\ ops' = extract_gbx_operations_information(table)
    /\ table' = TableAfterExtractGbx(table)
    /\ pc' = "done"
    /\ UNCHANGED <<job, temp_ops, header, module, valid, PairVars, FxVars>>

Next ==
    \/ ExtractMt4Operations
    \/ TransformMt4ToGbx
    \/ ExtractGbxOperations

Spec == Init /\ [][Next]_vars

\* A run of extract_header_information on the first table of an MT report.
HeaderInit ==
    /\ module = ModuleAtImport
    /\ job = "hdr"
    /\ \E n \in 0..MaxDates :
          \E s \in SymbolTexts, tf \in TimeframeTexts,
             d \in [1..n -> DateTexts], p \in ParameterTexts :
                table = HeaderTable(s, tf, d, p)
    /\ pc = "start"
    /\ temp_ops = NotRun
    /\ ops = NotRun
    /\ header = NotRun
    /\ valid = NotRun
    /\ NoPair
    /\ NoFx

ExtractHeaderInformation ==
    /\ job = "hdr"
    /\ pc = "start"
    /\ header' = extract_header_information(table)
    /\ pc' = "done"
    /\ UNCHANGED <<job, table, temp_ops, ops, module, valid, PairVars, FxVars>>

HeaderNext == ExtractHeaderInformation

HeaderSpec == HeaderInit /\ [][HeaderNext]_vars

(***************************************************************************)
(* Two reports, one MT and one GBX, whose calls run in any order; the two  *)
(* results are then concatenated (pd.concat([mt4, gbx], axis=0)).          *)
(***************************************************************************)
MaxPairRows == 2    \* rows of each of the two raw tables after the leading ones

\* Order ids of the MT report: "101" is an order id of the GBX report as
\* well, "0" reads like a label of the GBX result.
PairOrderIds == {"0", "101"}
PairTypes == {"Buy", "Sell"}

PairInit ==
    /\ module = ModuleAtImport
    /\ job = "both"
    /\ \E n \in 0..MaxPairRows, m \in 0..MaxPairRows :
          \E order \in [1..n -> PairOrderIds],
             sentinel \in [1..m -> BOOLEAN], type \in [1..m -> PairTypes] :
                table = [mt  |-> MtRawTable(n, order, [i \in 1..n |-> "buy"]),
                         gbx |-> GbxRawTable(m, sentinel, type)]
    /\ pc = "start"
    /\ temp_ops = NotRun
    /\ ops = NotRun
    /\ header = NotRun
    /\ valid = NotRun
    /\ NoPair
    /\ NoFx

PairExtractMt4Operations ==
    /\ job = "both"
    /\ ~HasRun(temp_ops)
    /\ temp_ops' = extract_mt4_operations_information(table.mt)
    /\ table' = [table EXCEPT !.mt = TableAfterExtractMt4(@)]
    /\ mt4' = IF Returned(temp_ops') THEN mt4 ELSE temp_ops'
    /\ UNCHANGED <<job, pc, ops, header, module, valid, gbx, concat_df, FxVars>>

PairTransformMt4ToGbx ==
    /\ job = "both"
    /\ Returned(temp_ops)
    /\ ~HasRun(mt4)
    /\ mt4' = transform_mt4_to_gbx(temp_ops.val)
    /\ temp_ops' = Ok(BtAfterTransformMt4ToGbx(temp_ops.val))
    /\ UNCHANGED <<job, pc, table, ops, header, module, valid, gbx, concat_df,
                   FxVars>>

PairExtractGbxOperations ==
    /\ job = "both"
    /\ ~HasRun(gbx)
    /\ gbx' = extract_gbx_operations_information(table.gbx)
    /\ table' = [table EXCEPT !.gbx = TableAfterExtractGbx(@)]
    /\ UNCHANGED <<job, pc, temp_ops, ops, header, module, valid, mt4,
                   concat_df, FxVars>>

\* df = pd.concat([mt4, gbx], axis=0), once both calls have returned
Concat ==
    /\ job = "both"
    /\ pc = "start"
    /\ Returned(mt4)
    /\ Returned(gbx)
    /\ concat_df' = Ok(pd_concat(mt4.val, gbx.val))
    /\ pc' = "done"
    /\ UNCHANGED <<job, table, temp_ops, ops, header, module, valid, mt4, gbx,
                   FxVars>>

PairNext ==
    \/ PairExtractMt4Operations
    \/ PairTransformMt4ToGbx
    \/ PairExtractGbxOperations
    \/ Concat

PairSpec == PairInit /\ [][PairNext]_vars

(***************************************************************************)
(* Vocabulary of the claims.                                               *)
(***************************************************************************)
CanonicalColumns ==
    <<"OpenTime", "Type", "Volume", "Symbol", "OpenPrice", "SL", "TP",
      "CloseTime", "ClosePrice", "Commission", "Taxes", "Swap", "Profit">>

\* The cell of row i (by position) in the column named col.
Cell(df, i, col) == df.data[i][ColPos(df, col)]

Rows(df) == 1..Len(df.data)

MtDone == job = "mt" /\ pc = "done"
GbxDone == job = "gbx" /\ pc = "done"

\* The positions of the rows of order o in a Stage-A table: its legs.
Legs(bt, o) == {i \in Rows(bt) : Cell(bt, i, "Order#") = o}
OrderIdsOf(bt) == {Cell(bt, i, "Order#") : i \in Rows(bt)}
FirstLeg(bt, o) == CHOOSE i \in Legs(bt, o) : \A j \in Legs(bt, o) : i <= j
LastLeg(bt, o) == CHOOSE i \in Legs(bt, o) : \A j \in Legs(bt, o) : j <= i

\* A raw MT operations table is valid: 10 columns, the title row, and at
\* least two rows for every order id (column 4 of the raw rows).
ValidMtRaw(t) ==
    /\ Len(t.columns) = 10
    /\ Len(t.data) >= 1
    /\ \A i \in 2..Len(t.data) :
          Cardinality({j \in 2..Len(t.data) : t.data[j][4] = t.data[i][4]}) >= 2

\* The rows of a raw GBX table after its 4 leading rows.
GbxBody(t) == SubSeq(t.data, 5, Len(t.data))
HasOrderId(row) == row[1] # ""
\* R: the rows whose Order# cell is not the empty string, in table order.
GbxR(t) == SelectSeq(GbxBody(t), HasOrderId)
\* k: the last position of R whose Type is the Type of R[1].
GbxK(R) == CHOOSE k \in 1..Len(R) :
              /\ R[k][3] = R[1][3]
              /\ \A j \in 1..Len(R) : R[j][3] = R[1][3] => j <= k

\* A raw GBX table is valid: 14 columns, the 4 leading rows, a data row.
ValidGbxRaw(t) ==
    /\ Len(t.columns) = 14
    /\ Len(t.data) > 4
    /\ Len(GbxR(t)) >= 1

(***************************************************************************)
(* C1.  For every valid raw MT operations table the MT path, and for every *)
(* valid raw GBX table the GBX path, returns a table whose columns are     *)
(* exactly the 13 canonical names in order and whose index is named "#".   *)
(* The code does not meet this for an MT table that holds the title row    *)
(* only: pd.DataFrame(data=[]) has no columns, and naming 14 raises.       *)
(***************************************************************************)
C1_CanonicalSchema ==
    (pc = "done" /\ ((job = "mt" /\ ValidMtRaw(table))
                       \/ (job = "gbx" /\ ValidGbxRaw(table))))
    => /\ Returned(ops)
       /\ ops.val.columns = CanonicalColumns
       /\ ops.val.name = "#"

(***************************************************************************)
(* C2.  For every order id with two or more rows in the Stage-A table      *)
(* (adjacent or not) the output row of that order takes OpenTime,          *)
(* OpenPrice, Type, Volume, SL and TP from the order's first row and       *)
(* CloseTime, ClosePrice and Profit from its last row.                     *)
(***************************************************************************)
C2_FirstAndLastLeg ==
    (MtDone /\ Returned(temp_ops)) =>
        LET bt == temp_ops.val
        IN \A o \in OrderIdsOf(bt) :
              Cardinality(Legs(bt, o)) >= 2 =>
                 /\ Returned(ops)
                 /\ \E r \in Rows(ops.val) : ops.val.index[r] = o
                 /\ \A r \in Rows(ops.val) :
                       ops.val.index[r] = o =>
                          LET f == FirstLeg(bt, o)
                              l == LastLeg(bt, o)
                          IN /\ Cell(ops.val, r, "OpenTime") = Cell(bt, f, "Time")
                             /\ Cell(ops.val, r, "OpenPrice") = Cell(bt, f, "Price")
                             /\ Cell(ops.val, r, "Type") = Cell(bt, f, "Type")
                             /\ Cell(ops.val, r, "Volume") = Cell(bt, f, "Volume")
                             /\ Cell(ops.val, r, "SL") = Cell(bt, f, "SL")
                             /\ Cell(ops.val, r, "TP") = Cell(bt, f, "TP")
                             /\ Cell(ops.val, r, "CloseTime") = Cell(bt, l, "Time")
                             /\ Cell(ops.val, r, "ClosePrice") = Cell(bt, l, "Price")
                             /\ Cell(ops.val, r, "Profit") = Cell(bt, l, "Profit")

\* An order of three legs with a row of another order between them.
C2_Witness ==
    /\ MtDone /\ Returned(temp_ops) /\ Returned(ops)
    /\ \E o \in OrderIdsOf(temp_ops.val) :
          /\ Cardinality(Legs(temp_ops.val, o)) >= 3
          /\ \E i \in Rows(temp_ops.val) :
                /\ FirstLeg(temp_ops.val, o) < i
                /\ i < LastLeg(temp_ops.val, o)
                /\ i \notin Legs(temp_ops.val, o)

(***************************************************************************)
(* C3.  For every Stage-A table transform_mt4_to_gbx returns one row per   *)
(* distinct Order# value, in the order in which the values are first seen, *)
(* and the index, named "#", holds those values without duplicates.        *)
(* The code does not meet this for the Stage-A table without rows (C1).    *)
(***************************************************************************)
C3_OneRowPerOrder ==
    (MtDone /\ Returned(temp_ops)) =>
        LET bt == temp_ops.val
        IN /\ Returned(ops)
           /\ ops.val.name = "#"
           /\ Len(ops.val.index) = Cardinality(OrderIdsOf(bt))
           /\ {ops.val.index[r] : r \in Rows(ops.val)} = OrderIdsOf(bt)
           /\ \A r, q \in Rows(ops.val) :
                 r < q => FirstLeg(bt, ops.val.index[r])
                             < FirstLeg(bt, ops.val.index[q])

(***************************************************************************)
(* C4.  An order id with only one row in the Stage-A table is invalid      *)
(* input: transform_mt4_to_gbx reports a failure and emits no row whose    *)
(* open and close fields come from that single row.  The code returns      *)
(* such a row.                                                             *)
(***************************************************************************)
C4_SingleLegRejected ==
    (MtDone /\ Returned(temp_ops)
        /\ \E o \in OrderIdsOf(temp_ops.val) :
              Cardinality(Legs(temp_ops.val, o)) = 1)
    => ~Returned(ops)

(***************************************************************************)
(* C5.  With R the rows after the 4 leading rows whose Order# cell is not  *)
(* empty and k the last position of R whose Type is the Type of R[1],      *)
(* extract_gbx_operations_information returns exactly R[1..k], in order,   *)
(* without the Order# cell: sentinel rows and the rows after k are absent, *)
(* nothing else is removed.                                                *)
(***************************************************************************)
C5_GbxPruning ==
    (GbxDone /\ Len(GbxR(table)) >= 1) =>
        LET R == GbxR(table)
        IN /\ Returned(ops)
           /\ ops.val.data = [i \in 1..GbxK(R) |-> Tail(R[i])]

\* A sentinel row was removed and a row after position k was dropped.
C5_Witness ==
    /\ GbxDone /\ Returned(ops)
    /\ Len(GbxR(table)) >= 2
    /\ Len(GbxR(table)) < Len(GbxBody(table))
    /\ GbxK(GbxR(table)) < Len(GbxR(table))
    /\ Len(ops.val.data) >= 2

\* The table of the example: 4 leading rows, 2 data rows of Type "Buy",
\* 1 sentinel row, 1 footer row of Type "Buy".
C6_ExampleTable(t) ==
    /\ Len(t.data) = 8
    /\ HasOrderId(t.data[5]) /\ t.data[5][3] = "Buy"
    /\ HasOrderId(t.data[6]) /\ t.data[6][3] = "Buy"
    /\ ~HasOrderId(t.data[7])
    /\ t.data[8][3] = "Buy"

(***************************************************************************)
(* C6, as claimed.  For the table of the example the result holds exactly  *)
(* the 2 data rows.                                                        *)
(***************************************************************************)
C6_FooterDropped ==
    (GbxDone /\ C6_ExampleTable(table)) =>
        /\ Returned(ops)
        /\ ops.val.data = <<Tail(table.data[5]), Tail(table.data[6])>>

(***************************************************************************)
(* C6, amended.  For the table of the example the result holds the 2 data  *)
(* rows, and after them the footer row unless the Order# cell of the       *)
(* footer is empty too.                                                    *)
(***************************************************************************)
C6_FooterKeptUnlessSentinel ==
    (GbxDone /\ C6_ExampleTable(table)) =>
        /\ Returned(ops)
        /\ ops.val.data =
              <<Tail(table.data[5]), Tail(table.data[6])>>
              \o (IF HasOrderId(table.data[8])
                  THEN <<Tail(table.data[8])>> ELSE <<>>)

C6_Witness ==
    /\ GbxDone /\ C6_ExampleTable(table) /\ Returned(ops)
    /\ HasOrderId(table.data[8])
    /\ Len(ops.val.data) = 3

(***************************************************************************)
(* C7.  When no row is left after the 4 leading rows and the rows with an  *)
(* empty Order# cell are removed, extract_gbx_operations_information       *)
(* reports an empty-report failure of its own.  The code raises the        *)
(* IndexError of the flag lookup (unique()[0]) instead.                    *)
(***************************************************************************)
C7_EmptyReportFailure ==
    (GbxDone /\ Len(GbxR(table)) = 0) => ops.exc = "EmptyReport"

(***************************************************************************)
(* C8.  In every row that MT aggregation returns Commission, Taxes and     *)
(* Swap are "0" and Symbol is the empty string.                            *)
(***************************************************************************)
C8_FixedCells ==
    (MtDone /\ Returned(ops)) =>
        \A r \in Rows(ops.val) :
            /\ Cell(ops.val, r, "Commission") = "0"
            /\ Cell(ops.val, r, "Taxes") = "0"
            /\ Cell(ops.val, r, "Swap") = "0"
            /\ Cell(ops.val, r, "Symbol") = ""

C8_Witness ==
    /\ MtDone /\ Returned(ops)
    /\ Len(ops.val.data) >= 2
    /\ \E r \in Rows(ops.val) : Cell(ops.val, r, "Profit") # "0"

(***************************************************************************)
(* Vocabulary of the claims about the header.                              *)
(***************************************************************************)
HdrDone == job = "hdr" /\ pc = "done"

\* The cells of the data column (index 1) in rows 0, 1 and 3.
SymbolCell == table.data[1][2]
PeriodCell == table.data[2][2]
ParametersCell == table.data[4][2]

DateMatches == FindDatesFrom(PeriodCell, 1)
TimeframeMatches == FindTimeframesFrom(PeriodCell, 1)
Fragments == SelectSeq(Split(ParametersCell, ";"), NonEmpty)

CountOf(s, c) == Cardinality({i \in 1..Len(s) : s[i] = c})
FirstPos(s, c) == CHOOSE i \in 1..Len(s) : s[i] = c /\ \A j \in 1..(i - 1) : s[j] # c

\* The first whitespace-delimited token of a text.
FirstToken(s) ==
    IF \A i \in 1..Len(s) : s[i] \in Whitespace THEN <<>>
    ELSE LET a == CHOOSE i \in 1..Len(s) :
                     s[i] \notin Whitespace
                     /\ \A j \in 1..(i - 1) : s[j] \in Whitespace
             b == CHOOSE i \in a..Len(s) :
                     /\ \A j \in a..i : s[j] \notin Whitespace
                     /\ (i = Len(s) \/ s[i + 1] \in Whitespace)
         IN SubSeq(s, a, b)

KeyOf(f) == Strip(SubSeq(f, 1, FirstPos(f, "=") - 1))
ValueOf(f) == Strip(SubSeq(f, FirstPos(f, "=") + 1, Len(f)))

\* The mapping of the trimmed keys to the trimmed values of the fragments
\* (of two fragments with one key, the later one).
ExpectedParams ==
    [k \in {KeyOf(Fragments[i]) : i \in 1..Len(Fragments)} |->
        ValueOf(Fragments[CHOOSE i \in 1..Len(Fragments) :
                             /\ KeyOf(Fragments[i]) = k
                             /\ \A j \in (i + 1)..Len(Fragments) :
                                   KeyOf(Fragments[j]) # k])]

HeaderKeysOf(h) == [i \in 1..Len(h) |-> h[i][1]]
HeaderItem(h, key) == h[CHOOSE i \in 1..Len(h) : h[i][1] = key][2]

\* The header text the claim is about: at least four date matches, each a
\* date of the calendar, a timeframe in parentheses, and parameters of the
\* form key=value.
C9_WellFormedHeader ==
    /\ Len(DateMatches) >= 4
    /\ \A i \in 1..Len(DateMatches) : Returned(convert_to_datetime(DateMatches[i]))
    /\ Len(TimeframeMatches) >= 1
    /\ \A i \in 1..Len(Fragments) : CountOf(Fragments[i], "=") = 1

(***************************************************************************)
(* C9.  For a well-formed header table extract_header_information returns *)
(* a record with the keys Symbol, TF, HistBeginning, HistEnding,           *)
(* BTBeginning, BTEnding, EAParams in that order; Symbol is the first      *)
(* whitespace-delimited token of the symbol cell, TF the first token of    *)
(* two upper-case letters or digits in parentheses, the timestamps the     *)
(* first four date matches in order, EAParams the trimmed keys and values. *)
(* The code splits the symbol cell on the space character only, so a       *)
(* symbol followed by another whitespace character is not isolated.        *)
(***************************************************************************)
C9_HeaderRecord ==
    (HdrDone /\ C9_WellFormedHeader) =>
        /\ Returned(header)
        /\ HeaderKeysOf(header.val) = HEADER_KEYS
        /\ HeaderItem(header.val, "Symbol") = FirstToken(SymbolCell)
        /\ HeaderItem(header.val, "TF") = TimeframeMatches[1]
        /\ HeaderItem(header.val, "HistBeginning")
              = convert_to_datetime(DateMatches[1]).val
        /\ HeaderItem(header.val, "HistEnding")
              = convert_to_datetime(DateMatches[2]).val
        /\ HeaderItem(header.val, "BTBeginning")
              = convert_to_datetime(DateMatches[3]).val
        /\ HeaderItem(header.val, "BTEnding")
              = convert_to_datetime(DateMatches[4]).val
        /\ HeaderItem(header.val, "EAParams") = ExpectedParams

(***************************************************************************)
(* C10.  extract_header_information fails and returns no record whenever  *)
(* the period row has fewer than four date matches, or no timeframe match, *)
(* or the parameters row has a non-empty fragment without "=".             *)
(***************************************************************************)
C10_MalformedHeaderFails ==
    (HdrDone /\ \/ Len(DateMatches) < 4
                \/ Len(TimeframeMatches) = 0
                \/ \E i \in 1..Len(Fragments) : CountOf(Fragments[i], "=") = 0)
    => /\ ~Returned(header)
       /\ header.val = <<>>

\* Three date matches only, everything else in order: the fourth timestamp
\* is missing and the call raises.
C10_Witness ==
    /\ HdrDone
    /\ Len(DateMatches) = 3
    /\ \A i \in 1..Len(DateMatches) : Returned(convert_to_datetime(DateMatches[i]))
    /\ Len(TimeframeMatches) >= 1
    /\ \A i \in 1..Len(Fragments) : CountOf(Fragments[i], "=") = 1
    /\ header.exc = "IndexError"

(***************************************************************************)
(* Vocabulary of the claims about the timestamps of the header.            *)
(***************************************************************************)
\* a <= b for two values of convert_to_datetime.
DateTimeLeq(a, b) ==
    LET fa == <<a.year, a.month, a.day, a.hour, a.minute>>
        fb == <<b.year, b.month, b.day, b.hour, b.minute>>
    IN \/ fa = fb
       \/ \E k \in 1..5 : /\ \A j \in 1..(k - 1) : fa[j] = fb[j]
                          /\ fa[k] < fb[k]

(***************************************************************************)
(* C11.  Every header record that extract_header_information returns has   *)
(* HistBeginning <= HistEnding and BTBeginning <= BTEnding.  The code      *)
(* stores the first four date matches in the order of the text and         *)
(* compares none of them.                                                  *)
(***************************************************************************)
C11_HeaderDatesOrdered ==
    (HdrDone /\ Returned(header)) =>
        /\ DateTimeLeq(HeaderItem(header.val, "HistBeginning"),
                       HeaderItem(header.val, "HistEnding"))
        /\ DateTimeLeq(HeaderItem(header.val, "BTBeginning"),
                       HeaderItem(header.val, "BTEnding"))

(***************************************************************************)
(* C16.  parse_ea_parameters splits every non-empty fragment on its first  *)
(* "=" only: whenever every fragment of the parameters row holds at least  *)
(* one "=" (and the rest of the header is well formed) the record is       *)
(* returned and EAParams maps the trimmed text before the first "=" to the *)
(* trimmed text after it.  The code unpacks elem.split("=") into two       *)
(* names, which raises ValueError for a fragment with two "=".             *)
(***************************************************************************)
C16_SplitOnFirstEquals ==
    (/\ HdrDone
     /\ Len(DateMatches) >= 4
     /\ \A i \in 1..Len(DateMatches) : Returned(convert_to_datetime(DateMatches[i]))
     /\ Len(TimeframeMatches) >= 1
     /\ \A i \in 1..Len(Fragments) : CountOf(Fragments[i], "=") >= 1)
    => /\ Returned(header)
       /\ HeaderItem(header.val, "EAParams") = ExpectedParams

(***************************************************************************)
(* Vocabulary of the claims about the first stage of the MT path.          *)
(***************************************************************************)
\* extract_mt4_operations_information has run on the raw table.
MtExtracted == job = "mt" /\ pc \in {"extracted", "done"}

\* The column names the specification gives the raw MT table.
MtStageAColumns ==
    <<"#", "Time", "Type", "Order#", "Volume", "Price", "SL", "TP",
      "Profit", "Balance">>

\* The rows of the raw table after its first, in order, with the first
\* cell of each row taken out as its label.
MtStageARows(t) == [i \in 1..(Len(t.data) - 1) |-> Tail(t.data[i + 1])]
MtStageALabels(t) == [i \in 1..(Len(t.data) - 1) |-> Head(t.data[i + 1])]

(***************************************************************************)
(* C13.  For every raw MT table with 10 columns                            *)
(* extract_mt4_operations_information drops exactly the first row, keeps   *)
(* the other rows in order, names the columns #, Time, Type, Order#,       *)
(* Volume, Price, SL, TP, Profit, Balance and makes "#" the index: the     *)
(* result has the 9 columns Time..Balance and the index name "#".  The     *)
(* code names the last column "Balace".                                    *)
(***************************************************************************)
C13_MtStageA ==
    (MtExtracted /\ Len(table.columns) = 10) =>
        /\ Returned(temp_ops)
        /\ temp_ops.val.columns = Tail(MtStageAColumns)
        /\ temp_ops.val.name = "#"
        /\ temp_ops.val.data = MtStageARows(table)
        /\ temp_ops.val.index = MtStageALabels(table)

(***************************************************************************)
(* C17.  The table extract_gbx_operations_information returns for a raw    *)
(* GBX table has, for its n rows, the index 0..n-1 named "#" (no gap, no   *)
(* duplicate) and no Order# column: the index is renumbered after the rows *)
(* with an empty Order# cell are removed, and the trailing rows dropped    *)
(* afterwards are the last labels.                                         *)
(***************************************************************************)
C17_GbxIndex ==
    (GbxDone /\ Returned(ops)) =>
        /\ Len(ops.val.data) = GbxK(GbxR(table))
        /\ ops.val.index = RangeIndex(Len(ops.val.data))
        /\ ops.val.name = "#"
        /\ \A j \in 1..Len(ops.val.columns) : ops.val.columns[j] # "Order#"

\* A row with an empty Order# cell stands before a retained row and rows
\* are dropped at the end: both removals have acted on the labels.
C17_Witness ==
    /\ GbxDone /\ Returned(ops)
    /\ Len(ops.val.data) >= 2
    /\ GbxK(GbxR(table)) < Len(GbxR(table))
    /\ \E i \in 1..Len(GbxBody(table)) :
          /\ ~HasOrderId(GbxBody(table)[i])
          /\ \E j \in (i + 1)..Len(GbxBody(table)) :
                /\ HasOrderId(GbxBody(table)[j])
                /\ GbxBody(table)[j][3] = GbxR(table)[1][3]

(***************************************************************************)
(* Vocabulary of the claims about the typed stage.                         *)
(***************************************************************************)
\* The columns the specification gives a type other than text.
TypedColumns ==
    {"OpenTime", "CloseTime", "Volume", "OpenPrice", "ClosePrice", "SL",
     "TP", "Commission", "Taxes", "Swap", "Profit", "Type"}

\* A cell that is still the text of the HTML cell.
IsText(cell) == cell \in STRING

(***************************************************************************)
(* C15.  The table that get_mt4_operations or get_gbx_operations returns   *)
(* is fully typed: no cell of a typed column is still text (the other      *)
(* outcome of a run is a failure).  The code returns the table of the      *)
(* normalizer as it is; the conversion is a TODO comment.                  *)
(***************************************************************************)
C15_ReturnedTablesTyped ==
    ((MtDone \/ GbxDone) /\ Returned(ops)) =>
        \A i \in 1..Len(ops.val.data), j \in 1..Len(ops.val.columns) :
            ops.val.columns[j] \in TypedColumns => ~IsText(ops.val.data[i][j])

(***************************************************************************)
(* Vocabulary of the claims about two reports.                             *)
(***************************************************************************)
\* Both calls have returned and their tables have been concatenated.
PairDone == job = "both" /\ pc = "done"

\* The order ids of the two source reports: the Order cells of the MT rows
\* after the title row, the non-empty Order# cells of the GBX rows after
\* the leading rows.
MtSourceOrderIds == {table.mt.data[i][4] : i \in 2..Len(table.mt.data)}
GbxSourceOrderIds == {GbxR(table.gbx)[i][1] : i \in 1..Len(GbxR(table.gbx))}

\* The labels of the combined table as Python objects: those of the MT
\* rows are str (cells of Order#), those of the GBX rows int (the labels of
\* reset_index), and a str is never equal to an int.
ConcatLabels ==
    [i \in 1..Len(concat_df.val.index) |->
        IF i <= Len(mt4.val.index) THEN <<"str", concat_df.val.index[i]>>
        ELSE <<"int", concat_df.val.index[i]>>]

IsUnique(s) == \A i, j \in 1..Len(s) : i # j => s[i] # s[j]

(***************************************************************************)
(* C12.  The row-wise concatenation of one table of get_mt4_operations and *)
(* one of get_gbx_operations has the 13 canonical columns in order and the *)
(* index name "#", holds the rows of the first and then of the second      *)
(* table, and its index values are unique whenever the two source reports  *)
(* share no order id.                                                      *)
(***************************************************************************)
C12_ConcatKeepsSchema ==
    PairDone =>
        /\ Returned(concat_df)
        /\ concat_df.val.columns = CanonicalColumns
        /\ concat_df.val.name = "#"
        /\ concat_df.val.data = mt4.val.data \o gbx.val.data
        /\ (MtSourceOrderIds \cap GbxSourceOrderIds = {}) => IsUnique(ConcatLabels)

\* The MT table brings the label "0", the GBX table the label 0 and a
\* second row, and the reports share no order id.
C12_Witness ==
    /\ PairDone
    /\ MtSourceOrderIds \cap GbxSourceOrderIds = {}
    /\ Len(mt4.val.index) = 1
    /\ mt4.val.index[1] = "0"
    /\ Len(gbx.val.index) = 2

(***************************************************************************)
(* Vocabulary of the claim about the effects of the calls.                 *)
(***************************************************************************)
\* The two entry points run alone on a raw table.
get_mt4_operations(t) ==
    LET stage_a == extract_mt4_operations_information(t)
    IN IF Returned(stage_a) THEN transform_mt4_to_gbx(stage_a.val)
       ELSE stage_a

get_gbx_operations(t) == extract_gbx_operations_information(t)

\* The results so far are those of the calls run alone on their reports.
SameResult(a, b) == a.exc = b.exc /\ a.val = b.val

SameAsAlone ==
    /\ HasRun(mt4) => SameResult(mt4, get_mt4_operations(table.mt))
    /\ HasRun(gbx) => SameResult(gbx, get_gbx_operations(table.gbx))

MaxValidatedRows == 2   \* rows of the raw table after the leading ones

\* is_ops_df_valid(ops): the column names of the table are the 13
\* canonical names in their order.  It reads the table only.
is_ops_df_valid(ops_df) == ops_df.columns = CanonicalColumns

\* columns = list(ops.columns); columns[j] = "BADCOLNAME"; ops.columns = columns
ReplaceColumnNameIn(ops_df, j) == [ops_df EXCEPT !.columns[j] = "BADCOLNAME"]

ValidatorInit ==
    /\ module = ModuleAtImport
    /\ \/ /\ job = "mt"
          /\ \E n \in 0..MaxValidatedRows :
                \E order \in [1..n -> MtOrderIds], type \in [1..n -> MtTypes] :
                   table = MtRawTable(n, order, type)
       \/ /\ job = "gbx"
          /\ \E n \in 0..MaxValidatedRows :
                \E sentinel \in [1..n -> BOOLEAN], type \in [1..n -> GbxTypes] :
                   table = GbxRawTable(n, sentinel, type)
    /\ pc = "start"
    /\ temp_ops = NotRun
    /\ ops = NotRun
    /\ header = NotRun
    /\ valid = NotRun
    /\ NoPair
    /\ NoFx

ReplaceColumnName ==
    /\ job \in {"mt", "gbx"}
    /\ pc = "done"
    /\ Returned(ops)
    /\ \E j \in 1..Len(ops.val.columns) :
          ops' = Ok(ReplaceColumnNameIn(ops.val, j))
    /\ pc' = "renamed"
    /\ valid' = NotRun
    /\ UNCHANGED <<job, table, temp_ops, header, module, PairVars, FxVars>>

IsOpsDfValid ==
    /\ job \in {"mt", "gbx"}
    /\ pc \in {"done", "renamed"}
    /\ Returned(ops)
    /\ ~HasRun(valid)
    /\ valid' = Ok(is_ops_df_valid(ops.val))
    /\ UNCHANGED <<job, pc, table, temp_ops, ops, header, module, PairVars,
                   FxVars>>

ValidatorNext ==
    \/ ExtractMt4Operations
    \/ TransformMt4ToGbx
    \/ ExtractGbxOperations
    \/ ReplaceColumnName
    \/ IsOpsDfValid

ValidatorSpec == ValidatorInit /\ [][ValidatorNext]_vars

MaxPipSize == 5     \* pip sizes 1..MaxPipSize
MaxSwaps == 3       \* calls of swap_base_and_quote on one pair

\* The members of the enumeration Symbol (src/currency/money.py).
Symbol ==
    {"AUD", "BGN", "CAD", "CHF", "CZK", "DKK", "EUR", "GBP", "HKD", "HUF",
     "ILS", "JPY", "MXN", "NOK", "PLN", "RON", "RUB", "SEK", "SGD", "TRY",
     "USD", "NZD", "ZAR"}

\* raise InvalidFXPair(): val holds the message, args[0] of the exception.
InvalidFXPair ==
    [exc |-> "InvalidFXPair",
     val |-> "Base and quote currencies must be different"]

\* FXPair.__init__
FXPair(base_cur, quote_cur, pip_size) ==
    IF base_cur = quote_cur THEN InvalidFXPair
    ELSE Ok([base_cur |-> base_cur, quote_cur |-> quote_cur,
             pip_size |-> pip_size])

swap_base_and_quote_BaseOnly(self) ==
    [self EXCEPT !.base_cur = self.quote_cur]

\* self.base_cur, self.quote_cur = self.quote_cur, self.base_cur
swap_base_and_quote(self) ==
    [self EXCEPT !.base_cur = self.quote_cur, !.quote_cur = self.base_cur]

FxInit ==
    /\ module = ModuleAtImport
    /\ job = "fx"
    /\ pc = "start"
    /\ table = DataFrame(<<>>)
    /\ temp_ops = NotRun
    /\ ops = NotRun
    /\ header = NotRun
    /\ valid = NotRun
    /\ NoPair
    /\ NoFx

\* fx_pair = FXPair(base_cur, quote_cur, pip_size)
ConstructFXPair ==
    /\ job = "fx"
    /\ ~HasRun(fx_pair)
    /\ \E base_cur \in Symbol, quote_cur \in Symbol, pip_size \in 1..MaxPipSize :
          /\ fx_pair' = FXPair(base_cur, quote_cur, pip_size)
          /\ fx_args' = <<base_cur, quote_cur, pip_size>>
    /\ UNCHANGED <<job, pc, table, temp_ops, ops, header, module, valid,
                   PairVars, fx_swaps>>

\* fx_pair.swap_base_and_quote()
SwapBaseAndQuote ==
    /\ job = "fx"
    /\ Returned(fx_pair)
    /\ fx_swaps < MaxSwaps
    /\ fx_pair' = Ok(swap_base_and_quote(fx_pair.val))
    /\ fx_swaps' = fx_swaps + 1
    /\ UNCHANGED <<job, pc, table, temp_ops, ops, header, module, valid,
                   PairVars, fx_args>>

FxNext ==
    \/ ConstructFXPair
    \/ SwapBaseAndQuote

FxSpec == FxInit /\ [][FxNext]_vars

(***************************************************************************)
(* C19.  An FXPair never holds equal base and quote currencies.  FXPair    *)
(* with base_cur = quote_cur raises InvalidFXPair with the message "Base   *)
(* and quote currencies must be different" and there is no pair; a         *)
(* constructed pair has base_cur # quote_cur after any number of calls of  *)
(* swap_base_and_quote, its pip_size is the one it was constructed with,   *)
(* after an odd number of calls its currencies are exchanged and after an  *)
(* even number they are the original ones.                                 *)
(***************************************************************************)
C19_FXPairDistinct ==
    (job = "fx" /\ HasRun(fx_pair)) =>
        IF fx_args[1] = fx_args[2]
        THEN /\ fx_pair.exc = "InvalidFXPair"
             /\ fx_pair.val = "Base and quote currencies must be different"
             /\ fx_swaps = 0
        ELSE /\ Returned(fx_pair)
             /\ fx_pair.val.base_cur # fx_pair.val.quote_cur
             /\ fx_pair.val.pip_size = fx_args[3]
             /\ fx_swaps % 2 = 1 =>
                   /\ fx_pair.val.base_cur = fx_args[2]
                   /\ fx_pair.val.quote_cur = fx_args[1]
             /\ fx_swaps % 2 = 0 =>
                   /\ fx_pair.val.base_cur = fx_args[1]
                   /\ fx_pair.val.quote_cur = fx_args[2]

\* A pair whose currencies have been swapped twice.
C19_Witness ==
    /\ job = "fx"
    /\ Returned(fx_pair)
    /\ fx_swaps >= 2

====
